---- MODULE Spec2Model ----
(***************************************************************************)
(* Orders, accounts and catalogs of the marketplace backend.                *)
(*                                                                         *)
(* The Order, Manufacturer and Buyer collections, the requests in flight   *)
(* and the last response are the state.  A handler that awaits two store   *)
(* calls (a find, then a findByIdAndUpdate or a save) is two actions: the  *)
(* first runs the handler from its start to the point where the write has  *)
(* been issued (auth middleware, checks, the find and everything the       *)
(* continuation of the find does), the second is the store applying the    *)
(* write and the handler answering.  Other requests may run between the    *)
(* two.                                                                    *)
(*                                                                         *)
(* Spec           order creation and the two status routes of              *)
(*                src/server.js, on a database with registered accounts.   *)
(* SpecAll        adds the status route of the earlier revisions kept in   *)
(*                src/unnamed/part_000.                                    *)
(* SpecCreate     order creation with the order fields of the body varied. *)
(* SpecCreateAll  adds POST /api/order/create of the earlier revision.     *)
(* SpecCreateSparse order creation with bodies that lack one field.        *)
(* SpecList       order creation and the order listings.                   *)
(* SpecCatalog    manufacturer registration and catalog replacement, from  *)
(*                an empty database.                                       *)
(* SpecCatalogAll adds the catalog route of the earlier revision.          *)
(* SpecBuyers     buyer registration and login, from an empty database.    *)
(* SpecAccounts   all account routes of src/server.js: registration,       *)
(*                login, profile, catalog replacement, public listing.     *)
(*                                                                         *)
(* Not modelled: failures of the store other than validation and unique    *)
(* index errors, request bodies whose status is a property name of         *)
(* Object.prototype, and a PUT /api/order/status/:id body without a        *)
(* status field.                                                           *)
(***************************************************************************)
EXTENDS Integers, Sequences, FiniteSets, TLC

MaxOrders == 2      \* orders ever created
MaxReqs == 2        \* requests in flight between their two store calls
MaxTime == 2        \* last value of the clock (Date.now / new Date())
MaxRequests == 3    \* requests the server receives in one run

Undefined == "undefined"

\* statusUpdatedAt of an order no update has touched (schema: no default).
NoDate == 0
\* body.orderId / :id absent from the request (!orderId).
NoId == 0

ManufacturerIds == {"m1", "m2"}
BuyerIds == {"b1"}

Statuses == {"Pending", "Allowed", "Approved", "Delivered", "Cancelled"}
\* A string that is no status of the workflow, as a request body may carry.
OtherStatus == "Shipped"
StatusInputs == Statuses \cup {OtherStatus}

\* An optional number or date of a request body or a document: << >> when
\* the field is undefined, <<v>> when it has the value v.
Absent == << >>
Some(v) == <<v>>


(* Tokens: the Authorization header of a request.  jwt.verify is a         *)
(* collaborator: a token either carries the claims signed at login or      *)
(* fails verification.                                                      *)

NoToken == [kind |-> "none", id |-> Undefined, type |-> Undefined]
BadToken == [kind |-> "bad", id |-> Undefined, type |-> Undefined]
ManufacturerToken(m) == [kind |-> "jwt", id |-> m, type |-> "manufacturer"]
BuyerToken(b) == [kind |-> "jwt", id |-> b, type |-> "buyer"]
Tokens ==
  {NoToken, BadToken}
    \cup {ManufacturerToken(m) : m \in ManufacturerIds}
    \cup {BuyerToken(b) : b \in BuyerIds}


(* Responses: res.status(code).json({message, allowed?}).  type is the      *)
(* type claim of req.user when the token verified, else what the header   *)
(* was ("none", "bad").                                                     *)

actor(tok) == IF tok.kind = "jwt" THEN tok.type ELSE tok.kind

\* order is the order document a response carries (<<doc>>), user the
\* account document, list the documents of a listing, token the token a
\* login issues; they are empty (NoToken) when the response has none.
Response(route, tok, code, message) ==
  [route |-> route, type |-> actor(tok), code |-> code, message |-> message,
   hasAllowed |-> FALSE, allowed |-> << >>, order |-> << >>, list |-> << >>,
   token |-> NoToken, user |-> << >>]

\* res.status(400).json({message: `Invalid status transition ...`, allowed})
InvalidTransition(route, tok, allowed) ==
  [route |-> route, type |-> actor(tok), code |-> 400,
   message |-> "Invalid status transition",
   hasAllowed |-> TRUE, allowed |-> allowed, order |-> << >>, list |-> << >>,
   token |-> NoToken, user |-> << >>]

\* No response: the handler goes on (or nothing has been sent yet).
NoResponse == Response("none", NoToken, 0, "")

\* res.json(orders) / res.json({orders, count})
Listing(route, tok, list) ==
  [Response(route, tok, 200, "") EXCEPT !.list = list]

\* authenticateToken: the response that ends the request, or NoResponse
\* when next() is called with req.user = the token's claims.
authenticateToken(route, tok) ==
  IF tok.kind = "none" THEN Response(route, tok, 401, "Access token required")
  ELSE IF tok.kind = "bad" THEN Response(route, tok, 403, "Invalid token")
  ELSE NoResponse

\* The manufacturer-only check left out.
notManufacturer_Off(user) == FALSE

\* req.user.type !== 'manufacturer'
notManufacturer(user) == user.type # "manufacturer"

\* req.user.type !== 'buyer'
notBuyer(user) == user.type # "buyer"

(* The workflow table of PUT /api/manufacturer/orders/update               *)

statusWorkflow ==
  [s \in Statuses |->
     CASE s = "Pending" -> <<"Allowed", "Cancelled">>
       [] s = "Allowed" -> <<"Approved", "Cancelled">>
       [] s = "Approved" -> <<"Delivered", "Cancelled">>
       [] s = "Delivered" -> << >>
       [] s = "Cancelled" -> << >>]

\* statusWorkflow[order.status] || []
validNextStatuses(status) ==
  IF status \in DOMAIN statusWorkflow THEN statusWorkflow[status] ELSE << >>

\* Array.prototype.includes
includes(arr, x) == \E i \in 1..Len(arr) : arr[i] = x

VARIABLES
  orders,     \* the Order collection, in insertion order; _id is the index
  inflight,   \* per request slot: the update a handler has issued
  resp,       \* what the last handler step sent (NoResponse: nothing yet)
  now,        \* the clock
  nreq,       \* requests received so far
  manufacturers,  \* the Manufacturer collection, in insertion order
  buyers,     \* the Buyer collection, in insertion order
  saving      \* documents a registration has built and not yet saved

accounts == <<manufacturers, buyers, saving>>

vars == <<orders, inflight, resp, now, nreq, manufacturers, buyers, saving>>

Reqs == 1..MaxReqs

\* A slot no handler is using.  pc names the route whose update is pending;
\* user is req.user, order the _id the update is addressed to, status the
\* status it writes and seen the status of the document the handler loaded.
Idle ==
  [pc |-> "idle", user |-> NoToken, order |-> NoId,
   status |-> Undefined, seen |-> Undefined]

\* bcrypt.hash(password, 10) and bcrypt.compare(password, hash).
hash(password) == <<"$2b$10$", password>>
compare(password, hashed) == hashed = hash(password)

\* The fields of an account document a response names one by one, or a
\* query selects with {password: 0}: all but password.
withoutPassword(doc) == [f \in DOMAIN doc \ {"password"} |-> doc[f]]

\* The accounts the tokens of Tokens were issued to at login.
RegisteredManufacturers ==
  <<[_id |-> "m1", email |-> "m1@x", username |-> "maker1",
     password |-> hash("pw1"), products |-> << >>],
    [_id |-> "m2", email |-> "m2@x", username |-> "maker2",
     password |-> hash("pw2"), products |-> << >>]>>
RegisteredBuyers ==
  <<[_id |-> "b1", name |-> "B", email |-> "", username |-> "u1",
     password |-> hash("pw1")]>>

\* No order placed and no request received yet.
InitOrders ==
  /\ orders = << >>
  /\ inflight = [r \in Reqs |-> Idle]
  /\ resp = NoResponse
  /\ now = 1
  /\ nreq = 0

Init ==
  /\ InitOrders
  /\ manufacturers = RegisteredManufacturers
  /\ buyers = RegisteredBuyers
  /\ saving = << >>

\* Order.findById(id) / findOne({_id: id}): the index of the document, or
\* NoId when there is none.
findById(id) == IF id \in 1..Len(orders) THEN id ELSE NoId

\* The update addressed by the time-derived id of the order instead of its
\* _id: Order.updateMany({id: order.id}, ...).
findByIdAndUpdate_ById(id, status) ==
  IF findById(id) = NoId THEN orders
  ELSE [j \in 1..Len(orders) |->
          IF orders[j].id = orders[id].id
            THEN [orders[j] EXCEPT !.status = status, !.statusUpdatedAt = now]
            ELSE orders[j]]

\* Order.findByIdAndUpdate(id, {status, statusUpdatedAt: new Date()}): the
\* collection after the store has applied the update.
findByIdAndUpdate(id, status) ==
  IF findById(id) = NoId THEN orders
  ELSE [orders EXCEPT ![id] =
          [@ EXCEPT !.status = status, !.statusUpdatedAt = now]]

\* A request arrives: it is counted, and a handler that will await a second
\* store call takes the first free slot.
Receive == nreq < MaxRequests /\ nreq' = nreq + 1

FreeSlot(r) ==
  /\ inflight[r].pc = "idle"
  /\ \A q \in Reqs : q < r => inflight[q].pc # "idle"

\* return res.status(..).json(..): the request ends with this response.
Answer(response) ==
  /\ resp' = response
  /\ UNCHANGED <<orders, inflight>>

\* Time passes.
Tick ==
  /\ now < MaxTime
  /\ now' = now + 1
  /\ UNCHANGED <<orders, inflight, resp, nreq>>
  /\ UNCHANGED accounts

(* POST /api/orders                                                         *)

\* The statuses a create request is given: none, a workflow status, a
\* string outside the workflow.
CreateStatusInputs == {Undefined, "Delivered", OtherStatus}

\* Request bodies of order creation.  buyerId is a field the handler of
\* POST /api/orders never reads.
CreateBodies ==
  [manufacturerId : ManufacturerIds, status : CreateStatusInputs,
   buyerId : {Undefined}, product : {"widget"},
   price : {Some(100)}, quantity : {Some(3)}, total : {Some(300)}]

\* `ORD${Date.now().toString().slice(-6)}`
newOrderId == now % 1000000

\* The order built with the body spread last, new Order({buyerId:
\* req.user.id, ...req.body}): a buyerId of the body replaces the token's.
NewOrder_BodyBuyer(user, body) ==
  [id |-> Some(newOrderId),
   buyerId |-> IF body.buyerId = Undefined THEN user.id ELSE body.buyerId,
   manufacturerId |-> body.manufacturerId,
   product |-> body.product,
   quantity |-> body.quantity,
   price |-> body.price,
   total |-> body.total,
   status |-> IF body.status = Undefined THEN "Pending" ELSE body.status,
   orderDate |-> Some(now),
   createdAt |-> now,
   statusUpdatedAt |-> NoDate]

\* new Order({...}) of POST /api/orders.
NewOrder(user, body) ==
  [id |-> Some(newOrderId),
   buyerId |-> user.id,
   manufacturerId |-> body.manufacturerId,
   product |-> body.product,
   quantity |-> body.quantity,
   price |-> body.price,
   total |-> body.total,
   status |-> IF body.status = Undefined THEN "Pending" ELSE body.status,
   orderDate |-> Some(now),
   createdAt |-> now,
   statusUpdatedAt |-> NoDate]

CreateOrder(tok, body) ==
  /\ Receive
  /\ UNCHANGED <<now, accounts>>
  /\ IF authenticateToken("create", tok) # NoResponse
       THEN Answer(authenticateToken("create", tok))
     ELSE IF notBuyer(tok)
       THEN Answer(Response("create", tok, 403, "Access denied - Buyer only"))
     ELSE /\ Len(orders) < MaxOrders
          /\ orders' = Append(orders, NewOrder(tok, body))
          /\ resp' = Response("create", tok, 200, "Order created successfully")
          /\ UNCHANGED inflight

(* PUT /api/manufacturer/orders/update                                      *)

UpdateBodies ==
  [orderId : {NoId} \cup (1..MaxOrders), status : StatusInputs \cup {Undefined}]

\* Order.findOne({_id: orderId, manufacturerId: req.user.id})
findOwned(orderId, userId) ==
  IF findById(orderId) # NoId /\ orders[orderId].manufacturerId = userId
    THEN orderId ELSE NoId

\* The checks of the handler, in order: the response that ends the request,
\* or NoResponse when the request passes them all.
updateChecks(tok, body) ==
  IF authenticateToken("update", tok) # NoResponse
    THEN authenticateToken("update", tok)
  ELSE IF notManufacturer(tok)
    THEN Response("update", tok, 403, "Access denied - Manufacturer only")
  ELSE IF body.orderId = NoId \/ body.status = Undefined
    THEN Response("update", tok, 400, "orderId and status required")
  ELSE IF findOwned(body.orderId, tok.id) = NoId
    THEN Response("update", tok, 404, "Order not found or not authorized")
  ELSE IF ~includes(validNextStatuses(orders[body.orderId].status), body.status)
    THEN InvalidTransition("update", tok,
                           validNextStatuses(orders[body.orderId].status))
  ELSE NoResponse

\* UpdateFind with the update issued before the workflow check: a rejected
\* transition has already been stored.
UpdateFind_UpdateFirst(r, tok, body) ==
  /\ Receive
  /\ FreeSlot(r)
  /\ UNCHANGED <<now, accounts>>
  /\ IF updateChecks(tok, body) # NoResponse
       THEN /\ resp' = updateChecks(tok, body)
            /\ orders' = IF updateChecks(tok, body).hasAllowed
                           THEN findByIdAndUpdate(body.orderId, body.status)
                           ELSE orders
            /\ UNCHANGED inflight
     ELSE /\ inflight' = [inflight EXCEPT ![r] =
                            [pc |-> "update", user |-> tok,
                             order |-> body.orderId,
                             status |-> body.status,
                             seen |-> orders[body.orderId].status]]
          /\ resp' = NoResponse
          /\ UNCHANGED orders

\* The handler up to the await of findByIdAndUpdate: either it answers, or
\* it has issued the update and slot r holds it.
UpdateFind(r, tok, body) ==
  /\ Receive
  /\ FreeSlot(r)
  /\ UNCHANGED <<now, accounts>>
  /\ IF updateChecks(tok, body) # NoResponse
       THEN Answer(updateChecks(tok, body))
     ELSE /\ inflight' = [inflight EXCEPT ![r] =
                            [pc |-> "update", user |-> tok,
                             order |-> body.orderId,
                             status |-> body.status,
                             seen |-> orders[body.orderId].status]]
          /\ resp' = NoResponse
          /\ UNCHANGED orders

\* The update without {new: true}: the response carries the document as it
\* was before the update.
UpdateWrite_ReturnsOld(r) ==
  /\ inflight[r].pc = "update"
  /\ orders' = findByIdAndUpdate(inflight[r].order, inflight[r].status)
  /\ resp' = [Response("update", inflight[r].user, 200,
                        "Status updated successfully")
                 EXCEPT !.order = IF findById(inflight[r].order) = NoId
                                    THEN << >>
                                    ELSE <<orders[inflight[r].order]>>]
  /\ inflight' = [inflight EXCEPT ![r] = Idle]
  /\ UNCHANGED <<now, nreq, accounts>>

\* The store applies the update and the handler answers with the updated
\* order.
UpdateWrite(r) ==
  /\ inflight[r].pc = "update"
  /\ orders' = findByIdAndUpdate(inflight[r].order, inflight[r].status)
  /\ resp' = [Response("update", inflight[r].user, 200,
                        "Status updated successfully")
                 EXCEPT !.order = IF findById(inflight[r].order) = NoId
                                    THEN << >>
                                    ELSE <<orders'[inflight[r].order]>>]
  /\ inflight' = [inflight EXCEPT ![r] = Idle]
  /\ UNCHANGED <<now, nreq, accounts>>

(* PUT /api/order/status/:id                                                *)

StatusBodies == [status : StatusInputs]

StatusFind(r, tok, id, body) ==
  /\ Receive
  /\ FreeSlot(r)
  /\ UNCHANGED <<now, accounts>>
  /\ IF authenticateToken("status", tok) # NoResponse
       THEN Answer(authenticateToken("status", tok))
     ELSE IF notManufacturer(tok)
       THEN Answer(Response("status", tok, 403, "Access denied"))
     ELSE IF findById(id) = NoId
       THEN Answer(Response("status", tok, 404, "Order not found"))
     ELSE IF orders[id].manufacturerId # tok.id
       THEN Answer(Response("status", tok, 403, "Not authorized for this order"))
     ELSE /\ inflight' = [inflight EXCEPT ![r] =
                            [pc |-> "status", user |-> tok, order |-> id,
                             status |-> body.status, seen |-> Undefined]]
          /\ resp' = NoResponse
          /\ UNCHANGED orders

StatusWrite(r) ==
  /\ inflight[r].pc = "status"
  /\ orders' = findByIdAndUpdate(inflight[r].order, inflight[r].status)
  /\ resp' = Response("status", inflight[r].user, 200, "Status updated")
  /\ inflight' = [inflight EXCEPT ![r] = Idle]
  /\ UNCHANGED <<now, nreq, accounts>>

Next ==
  \/ Tick
  \/ \E tok \in Tokens, body \in CreateBodies : CreateOrder(tok, body)
  \/ \E r \in Reqs, tok \in Tokens, body \in UpdateBodies : UpdateFind(r, tok, body)
  \/ \E r \in Reqs : UpdateWrite(r)
  \/ \E r \in Reqs, tok \in Tokens, id \in 1..MaxOrders, body \in StatusBodies :
       StatusFind(r, tok, id, body)
  \/ \E r \in Reqs : StatusWrite(r)

Spec == Init /\ [][Next]_vars

(* PUT /api/order/status/:id of the first revision (src/unnamed/part_000): *)
(* no middleware, no check, one store call that does not stamp             *)
(* statusUpdatedAt.                                                         *)

LegacyStatus(id, body) ==
  /\ Receive
  /\ orders' = IF findById(id) = NoId THEN orders
               ELSE [orders EXCEPT ![id] = [@ EXCEPT !.status = body.status]]
  /\ resp' = Response("legacy-status", NoToken, 200, "Status updated")
  /\ UNCHANGED <<inflight, now, accounts>>

NextAll ==
  \/ Next
  \/ \E id \in 1..MaxOrders, body \in StatusBodies : LegacyStatus(id, body)

SpecAll == Init /\ [][NextAll]_vars


(* Order creation on its own: POST /api/orders of src/server.js with the    *)
(* order fields of the body varied, and POST /api/order/create of the      *)
(* earlier revision (src/unnamed/part_000:302-318).                         *)

\* A buyer id a request body names that is not the caller's.
OtherBuyerId == "b2"

\* Request bodies of order creation: with or without a total (equal to
\* price * quantity or not), with or without a buyerId.
OrderBodies ==
  [manufacturerId : {"m1"}, status : {Undefined},
   buyerId : {Undefined, OtherBuyerId} \cup BuyerIds, product : {"widget"},
   price : {Some(100)}, quantity : {Some(3)},
   total : {Absent, Some(300), Some(7)}]

\* new Order({...req.body, buyerId: req.user.id, buyerName: req.user.name})
\* of POST /api/order/create: the body has no id and no orderDate.
Rev1Order(user, body) ==
  [id |-> Absent,
   buyerId |-> user.id,
   manufacturerId |-> body.manufacturerId,
   product |-> body.product,
   quantity |-> body.quantity,
   price |-> body.price,
   total |-> body.total,
   status |-> IF body.status = Undefined THEN "Pending" ELSE body.status,
   orderDate |-> Absent,
   createdAt |-> now,
   statusUpdatedAt |-> NoDate]

\* POST /api/order/create
Rev1CreateOrder(tok, body) ==
  /\ Receive
  /\ UNCHANGED <<now, accounts>>
  /\ IF authenticateToken("order-create", tok) # NoResponse
       THEN Answer(authenticateToken("order-create", tok))
     ELSE IF notBuyer(tok)
       THEN Answer(Response("order-create", tok, 403, "Access denied"))
     ELSE /\ Len(orders) < MaxOrders
          /\ orders' = Append(orders, Rev1Order(tok, body))
          /\ resp' = Response("order-create", tok, 200, "Order created")
          /\ UNCHANGED inflight

NextCreate ==
  \/ Tick
  \/ \E tok \in Tokens, body \in OrderBodies : CreateOrder(tok, body)

SpecCreate == Init /\ [][NextCreate]_vars

NextCreateAll ==
  \/ NextCreate
  \/ \E tok \in Tokens, body \in OrderBodies : Rev1CreateOrder(tok, body)

SpecCreateAll == Init /\ [][NextCreateAll]_vars

\* A complete body of order creation, and the bodies that lack one of
\* manufacturerId, product, price and quantity.
CompleteBody ==
  [manufacturerId |-> "m1", status |-> Undefined, buyerId |-> Undefined,
   product |-> "widget", price |-> Some(100), quantity |-> Some(3),
   total |-> Some(300)]
SparseBodies ==
  {CompleteBody,
   [CompleteBody EXCEPT !.manufacturerId = Undefined],
   [CompleteBody EXCEPT !.product = Undefined],
   [CompleteBody EXCEPT !.price = Absent],
   [CompleteBody EXCEPT !.quantity = Absent]}

NextCreateSparse ==
  \/ Tick
  \/ \E tok \in Tokens, body \in SparseBodies : CreateOrder(tok, body)

SpecCreateSparse == Init /\ [][NextCreateSparse]_vars


(* Manufacturer accounts and catalogs: POST /api/manufacturer/register and  *)
(* PUT /api/manufacturer/update-products of src/server.js, and the         *)
(* update-products route of the earlier revision                           *)
(* (src/unnamed/part_000:508-547).                                          *)

\* An empty database: no account, no order.
InitEmpty ==
  /\ InitOrders
  /\ manufacturers = << >>
  /\ buyers = << >>
  /\ saving = << >>

\* The _id of the manufacturer documents, in insertion order.
ManufacturerIdSeq == <<"m1", "m2">>

\* Products of a request body: name a string or undefined, price a number
\* or undefined.
BlankName == "  "
Widget == [name |-> "widget", price |-> Some(100)]
ProductInputs ==
  {Widget,
   [name |-> "widget", price |-> Some(0)],
   [name |-> "widget", price |-> Some(-1)],
   [name |-> "widget", price |-> Absent],
   [name |-> BlankName, price |-> Some(100)],
   [name |-> Undefined, price |-> Some(100)]}
ProductLists ==
  {<< >>} \cup {<<p>> : p \in ProductInputs}
    \cup {<<Widget, p>> : p \in ProductInputs}
    \cup {<<p, Widget>> : p \in ProductInputs}

\* The products field of a body: absent (not an array) or an array.
ProductsInputs == {Absent} \cup {Some(list) : list \in ProductLists}

\* String.prototype.trim on the names above.
trim(str) == IF str = BlankName THEN "" ELSE str

\* The products subdocuments mongoose builds from an array: the setter of
\* name (trim: true) is applied.
castProducts(list) ==
  [k \in 1..Len(list) |->
     [name |-> IF list[k].name = Undefined THEN Undefined
               ELSE trim(list[k].name),
      price |-> list[k].price]]

\* The schema without validators on the product fields.
validProduct_Off(product) == TRUE

\* The validators of a product: name required, price required and min 0.
validProduct(product) ==
  /\ product.name \notin {Undefined, ""}
  /\ product.price # Absent
  /\ product.price[1] >= 0

validProducts(list) == \A k \in 1..Len(list) : validProduct(list[k])

\* Request bodies of POST /api/manufacturer/register; the other required
\* fields (companyName, ownerName, mobile, password) are present.
ManufacturerBodies ==
  [username : {"maker1", "maker2", Undefined}, email : {"m1@x", "m2@x"},
   password : {"pw1"}, products : ProductsInputs]

\* new Manufacturer({..., password: hashedPassword, products: products || []})
NewManufacturer(body) ==
  [_id |-> Undefined, email |-> body.email, username |-> body.username,
   password |-> hash(body.password),
   products |-> IF body.products = Absent THEN << >>
                ELSE castProducts(body.products[1])]

\* The sequence without its k-th element.
RemoveAt(seq, k) ==
  [j \in 1..(Len(seq) - 1) |-> IF j < k THEN seq[j] ELSE seq[j + 1]]

\* A handler that touches no order.
NoOrderChange == UNCHANGED <<orders, inflight, now>>

\* POST /api/manufacturer/register up to m.save(): the required-field check,
\* the findOne for an existing email or username, the document built.
RegisterManufacturer(body) ==
  /\ Receive
  /\ NoOrderChange
  /\ UNCHANGED <<manufacturers, buyers>>
  /\ IF body.username = Undefined
       THEN /\ resp' = Response("manufacturer-register", NoToken, 400,
                                "All fields are required")
            /\ UNCHANGED saving
     ELSE IF \E i \in 1..Len(manufacturers) :
               \/ manufacturers[i].email = body.email
               \/ manufacturers[i].username = body.username
       THEN /\ resp' = Response("manufacturer-register", NoToken, 400,
                                "Email or Username already exists")
            /\ UNCHANGED saving
     ELSE /\ Len(manufacturers) + Len(saving) < Len(ManufacturerIdSeq)
          /\ saving' = Append(saving, [coll |-> "Manufacturer",
                                        doc |-> NewManufacturer(body)])
          /\ resp' = NoResponse

\* m.save() and the response: the document is validated, then inserted
\* unless the unique index on email or on username has its key already.
SaveManufacturer(k) ==
  /\ k \in 1..Len(saving)
  /\ saving[k].coll = "Manufacturer"
  /\ saving' = RemoveAt(saving, k)
  /\ NoOrderChange
  /\ UNCHANGED <<nreq, buyers>>
  /\ IF \/ ~validProducts(saving[k].doc.products)
        \/ \E i \in 1..Len(manufacturers) :
             \/ manufacturers[i].email = saving[k].doc.email
             \/ manufacturers[i].username = saving[k].doc.username
       THEN /\ resp' = Response("manufacturer-register", NoToken, 500,
                                "Server Error")
            /\ UNCHANGED manufacturers
     ELSE /\ manufacturers' =
               Append(manufacturers,
                      [saving[k].doc EXCEPT
                         !._id = ManufacturerIdSeq[Len(manufacturers) + 1]])
          /\ resp' = [Response("manufacturer-register", NoToken, 200,
                               "Manufacturer Registered Successfully")
                        EXCEPT !.user =
                          <<manufacturers'[Len(manufacturers')]>>]

\* Manufacturer.findById(id): the index of the document, or NoId.
findManufacturer(id) ==
  IF \E i \in 1..Len(manufacturers) : manufacturers[i]._id = id
    THEN CHOOSE i \in 1..Len(manufacturers) : manufacturers[i]._id = id
    ELSE NoId

\* Request bodies of PUT /api/manufacturer/update-products.
CatalogBodies == [products : ProductsInputs]

\* PUT /api/manufacturer/update-products:
\* Manufacturer.findByIdAndUpdate(req.user.id, {products, updatedAt},
\* {new: true, runValidators: true}).
UpdateProducts(tok, body) ==
  /\ Receive
  /\ NoOrderChange
  /\ UNCHANGED <<buyers, saving>>
  /\ IF authenticateToken("update-products", tok) # NoResponse
       THEN /\ resp' = authenticateToken("update-products", tok)
            /\ UNCHANGED manufacturers
     ELSE IF notManufacturer(tok)
       THEN /\ resp' = Response("update-products", tok, 403, "Access denied")
            /\ UNCHANGED manufacturers
     ELSE IF body.products = Absent
       THEN /\ resp' = Response("update-products", tok, 400,
                                "Products must be an array")
            /\ UNCHANGED manufacturers
     ELSE IF ~validProducts(castProducts(body.products[1]))
       THEN /\ resp' = Response("update-products", tok, 500,
                                "Failed to update products")
            /\ UNCHANGED manufacturers
     ELSE IF findManufacturer(tok.id) = NoId
       THEN /\ resp' = Response("update-products", tok, 404,
                                "Manufacturer not found")
            /\ UNCHANGED manufacturers
     ELSE /\ manufacturers' =
               [manufacturers EXCEPT ![findManufacturer(tok.id)].products =
                  castProducts(body.products[1])]
          /\ resp' = [Response("update-products", tok, 200, "")
                        EXCEPT !.user =
                          <<manufacturers'[findManufacturer(tok.id)]>>]

NextCatalog ==
  \/ \E body \in ManufacturerBodies : RegisterManufacturer(body)
  \/ \E k \in 1..MaxReqs : SaveManufacturer(k)
  \/ \E tok \in Tokens, body \in CatalogBodies : UpdateProducts(tok, body)

SpecCatalog == InitEmpty /\ [][NextCatalog]_vars

\* The validators of a product in the earlier revision: name required,
\* price required; no trim, no minimum.
validRev2(list) ==
  \A k \in 1..Len(list) :
    list[k].name \notin {Undefined, ""} /\ list[k].price # Absent

\* Request bodies of the earlier revision's route: the manufacturer's id
\* and the products.
Rev2CatalogBodies ==
  [id : ManufacturerIds \cup {Undefined}, products : ProductsInputs]

\* PUT /api/manufacturer/update-products of the earlier revision: no
\* middleware, the manufacturer is the id of the body.
Rev2UpdateProducts(tok, body) ==
  /\ Receive
  /\ NoOrderChange
  /\ UNCHANGED <<buyers, saving>>
  /\ IF body.id = Undefined
       THEN /\ resp' = Response("update-products-rev2", tok, 400,
                                "Manufacturer ID required")
            /\ UNCHANGED manufacturers
     ELSE IF body.products = Absent
       THEN /\ resp' = Response("update-products-rev2", tok, 400,
                                "Products must be an array")
            /\ UNCHANGED manufacturers
     ELSE IF ~validRev2(body.products[1])
       THEN /\ resp' = Response("update-products-rev2", tok, 500,
                                "Failed to update products")
            /\ UNCHANGED manufacturers
     ELSE IF findManufacturer(body.id) = NoId
       THEN /\ resp' = Response("update-products-rev2", tok, 404,
                                "Manufacturer not found")
            /\ UNCHANGED manufacturers
     ELSE /\ manufacturers' =
               [manufacturers EXCEPT ![findManufacturer(body.id)].products =
                  body.products[1]]
          /\ resp' = [Response("update-products-rev2", tok, 200, "")
                        EXCEPT !.user =
                          <<manufacturers'[findManufacturer(body.id)]>>]

NextCatalogAll ==
  \/ NextCatalog
  \/ \E tok \in Tokens, body \in Rev2CatalogBodies :
       Rev2UpdateProducts(tok, body)

SpecCatalogAll == InitEmpty /\ [][NextCatalogAll]_vars


(* Buyer accounts: POST /api/buyer/register and POST /api/buyer/login of    *)
(* src/server.js.  The second handler registered for POST /api/buyer/login *)
(* (298-331) is never reached: the first one always answers.                *)

\* The _id of the buyer documents, in insertion order.
BuyerIdSeq == <<"b1", "b2">>

\* Usernames and e-mail addresses of request bodies; a username may be an
\* e-mail address.
Usernames == {"ann", "bob@x"}
Emails == {"bob@x"}
Passwords == {"pw1", "pw2"}

\* Request bodies of POST /api/buyer/register; name is present.
BuyerBodies ==
  [username : Usernames \cup {Undefined}, email : Emails \cup {Undefined},
   password : Passwords]

\* new Buyer({name, mobile: mobile || "", email: email || "", username,
\* password: hashedPassword})
NewBuyer(body) ==
  [_id |-> Undefined,
   email |-> IF body.email = Undefined THEN "" ELSE body.email,
   username |-> body.username,
   password |-> hash(body.password)]

\* POST /api/buyer/register up to buyer.save(): the required-field check,
\* the findOne({$or: [{username}, {email}]}) and the document built.  An
\* undefined email matches no stored document.
RegisterBuyer(body) ==
  /\ Receive
  /\ NoOrderChange
  /\ UNCHANGED <<manufacturers, buyers>>
  /\ IF body.username = Undefined
       THEN /\ resp' = Response("buyer-register", NoToken, 400,
                                "Name, username and password are required")
            /\ UNCHANGED saving
     ELSE IF \E i \in 1..Len(buyers) :
               \/ buyers[i].username = body.username
               \/ body.email # Undefined /\ buyers[i].email = body.email
       THEN /\ resp' = Response("buyer-register", NoToken, 400,
                                "Username or email already exists")
            /\ UNCHANGED saving
     ELSE /\ Len(buyers) + Len(saving) < Len(BuyerIdSeq)
          /\ saving' = Append(saving, [coll |-> "Buyer",
                                        doc |-> NewBuyer(body)])
          /\ resp' = NoResponse

\* buyer.save() without the unique index on username.
SaveBuyer_NoIndex(k) ==
  /\ k \in 1..Len(saving)
  /\ saving[k].coll = "Buyer"
  /\ saving' = RemoveAt(saving, k)
  /\ NoOrderChange
  /\ UNCHANGED <<nreq, manufacturers>>
  /\ buyers' = Append(buyers, [saving[k].doc EXCEPT
                                 !._id = BuyerIdSeq[Len(buyers) + 1]])
  /\ resp' = [Response("buyer-register", NoToken, 200,
                       "Buyer registered successfully")
                EXCEPT !.user = <<withoutPassword(buyers'[Len(buyers')])>>]

\* buyer.save() and the response: the document is inserted unless the
\* unique index on username (buyerSchema) has its key already.
SaveBuyer(k) ==
  /\ k \in 1..Len(saving)
  /\ saving[k].coll = "Buyer"
  /\ saving' = RemoveAt(saving, k)
  /\ NoOrderChange
  /\ UNCHANGED <<nreq, manufacturers>>
  /\ IF \E i \in 1..Len(buyers) :
          buyers[i].username = saving[k].doc.username
       THEN /\ resp' = Response("buyer-register", NoToken, 500,
                                "Registration failed")
            /\ UNCHANGED buyers
     ELSE /\ buyers' = Append(buyers, [saving[k].doc EXCEPT
                                         !._id = BuyerIdSeq[Len(buyers) + 1]])
          /\ resp' = [Response("buyer-register", NoToken, 200,
                               "Buyer registered successfully")
                        EXCEPT !.user =
                          <<withoutPassword(buyers'[Len(buyers')])>>]

\* Request bodies of POST /api/buyer/login.
LoginBodies == [username : Usernames, password : Passwords]

\* The documents Buyer.findOne({$or: [{username}, {email: username}]}) can
\* return: any one that matches (the store returns the first it meets).
findBuyer(username) ==
  {i \in 1..Len(buyers) :
     buyers[i].username = username \/ buyers[i].email = username}

\* jwt.sign({id: user._id, type: 'buyer', ...}) and the response, whose
\* user names _id, name, email, mobile and username.
LoginSuccess(user) ==
  [Response("buyer-login", NoToken, 200, "Login success")
     EXCEPT !.token = BuyerToken(user._id),
            !.user = <<withoutPassword(user)>>]

\* The login that tells an unknown username from a wrong password.
BuyerLogin_DistinctMessages(body) ==
  /\ Receive
  /\ NoOrderChange
  /\ UNCHANGED accounts
  /\ IF findBuyer(body.username) = {}
       THEN resp' = Response("buyer-login", NoToken, 400, "User not found")
     ELSE \E i \in findBuyer(body.username) :
            IF ~compare(body.password, buyers[i].password)
              THEN resp' = Response("buyer-login", NoToken, 400,
                                    "Invalid password")
            ELSE resp' = LoginSuccess(buyers[i])

\* POST /api/buyer/login
BuyerLogin(body) ==
  /\ Receive
  /\ NoOrderChange
  /\ UNCHANGED accounts
  /\ IF findBuyer(body.username) = {}
       THEN resp' = Response("buyer-login", NoToken, 400,
                             "Invalid credentials")
     ELSE \E i \in findBuyer(body.username) :
            IF ~compare(body.password, buyers[i].password)
              THEN resp' = Response("buyer-login", NoToken, 400,
                                    "Invalid credentials")
            ELSE resp' = LoginSuccess(buyers[i])

NextBuyers ==
  \/ \E body \in BuyerBodies : RegisterBuyer(body)
  \/ \E k \in 1..MaxReqs : SaveBuyer(k)
  \/ \E body \in LoginBodies : BuyerLogin(body)

SpecBuyers == InitEmpty /\ [][NextBuyers]_vars


(* All account routes of src/server.js together: registration, login,      *)
(* profile, catalog replacement and the public manufacturer listing.        *)

\* Request bodies of POST /api/manufacturer/login: a username or an e-mail
\* address, and a password.
ManufacturerLoginBodies ==
  [username : {"maker1", "maker2", "m1@x"}, password : Passwords]

\* The documents Manufacturer.findOne({$or: [{username}, {email: username}]})
\* can return.
findManufacturerByLogin(username) ==
  {i \in 1..Len(manufacturers) :
     \/ manufacturers[i].username = username
     \/ manufacturers[i].email = username}

\* POST /api/manufacturer/login
ManufacturerLogin(body) ==
  /\ Receive
  /\ NoOrderChange
  /\ UNCHANGED accounts
  /\ IF findManufacturerByLogin(body.username) = {}
       THEN resp' = Response("manufacturer-login", NoToken, 400,
                             "Invalid credentials")
     ELSE \E i \in findManufacturerByLogin(body.username) :
            IF ~compare(body.password, manufacturers[i].password)
              THEN resp' = Response("manufacturer-login", NoToken, 400,
                                    "Invalid credentials")
            ELSE resp' =
                   [Response("manufacturer-login", NoToken, 200,
                             "Login successful")
                      EXCEPT !.token = ManufacturerToken(manufacturers[i]._id),
                             !.user = <<withoutPassword(manufacturers[i])>>]

\* GET /api/manufacturer/profile: res.json(manufacturer)
ManufacturerProfile(tok) ==
  /\ Receive
  /\ NoOrderChange
  /\ UNCHANGED accounts
  /\ IF authenticateToken("manufacturer-profile", tok) # NoResponse
       THEN resp' = authenticateToken("manufacturer-profile", tok)
     ELSE IF notManufacturer(tok)
       THEN resp' = Response("manufacturer-profile", tok, 403, "Access denied")
     ELSE IF findManufacturer(tok.id) = NoId
       THEN resp' = Response("manufacturer-profile", tok, 404,
                             "Manufacturer not found")
     ELSE resp' = [Response("manufacturer-profile", tok, 200, "")
                     EXCEPT !.user = <<manufacturers[findManufacturer(tok.id)]>>]

\* The listing with no projection: Manufacturer.find({}).
ListManufacturers_AllFields(tok) ==
  /\ Receive
  /\ NoOrderChange
  /\ UNCHANGED accounts
  /\ resp' = Listing("manufacturer-all", tok, manufacturers)

\* GET /api/manufacturer/all: no middleware;
\* Manufacturer.find({}, {password: 0}).
ListManufacturers(tok) ==
  /\ Receive
  /\ NoOrderChange
  /\ UNCHANGED accounts
  /\ resp' = Listing("manufacturer-all", tok,
                     [k \in 1..Len(manufacturers) |->
                        withoutPassword(manufacturers[k])])

\* Registration bodies and catalogs of the runs that look at accounts
\* rather than at products.
AccountBodies ==
  [username : {"maker1", "maker2", Undefined}, email : {"m1@x", "m2@x"},
   password : {"pw1"}, products : {Absent, Some(<<Widget>>)}]
AccountCatalogBodies == [products : {Absent, Some(<<Widget>>)}]

NextAccounts ==
  \/ \E body \in AccountBodies : RegisterManufacturer(body)
  \/ \E k \in 1..MaxReqs : SaveManufacturer(k)
  \/ \E body \in ManufacturerLoginBodies : ManufacturerLogin(body)
  \/ \E tok \in Tokens : ManufacturerProfile(tok)
  \/ \E tok \in Tokens : ListManufacturers(tok)
  \/ \E tok \in Tokens, body \in AccountCatalogBodies :
       UpdateProducts(tok, body)
  \/ \E body \in BuyerBodies : RegisterBuyer(body)
  \/ \E k \in 1..MaxReqs : SaveBuyer(k)
  \/ \E body \in LoginBodies : BuyerLogin(body)

SpecAccounts == InitEmpty /\ [][NextAccounts]_vars


(* The order listings of src/server.js                                      *)

\* The results Order.find({field: value}).sort({createdAt: -1}) can have: the
\* matching documents, newest first, documents of equal createdAt in either
\* order.
find(field, value) ==
  LET S == {i \in 1..Len(orders) : orders[i][field] = value} IN
    {[k \in 1..Cardinality(S) |-> orders[f[k]]] :
       f \in {g \in [1..Cardinality(S) -> S] :
                /\ \A a, b \in 1..Cardinality(S) : a # b => g[a] # g[b]
                /\ \A a, b \in 1..Cardinality(S) :
                     a < b => orders[g[a]].createdAt >= orders[g[b]].createdAt}}

\* A handler that reads and answers: nothing stored changes.
ReadOnly == UNCHANGED <<orders, inflight, now, accounts>>

\* GET /api/manufacturer/orders
ManufacturerOrders(tok) ==
  /\ Receive
  /\ ReadOnly
  /\ IF authenticateToken("manufacturer-orders", tok) # NoResponse
       THEN resp' = authenticateToken("manufacturer-orders", tok)
     ELSE IF notManufacturer(tok)
       THEN resp' = Response("manufacturer-orders", tok, 403,
                             "Access denied - Manufacturer only")
     ELSE \E list \in find("manufacturerId", tok.id) :
            resp' = Listing("manufacturer-orders", tok, list)

\* GET /api/orders/manufacturer
OrdersManufacturer(tok) ==
  /\ Receive
  /\ ReadOnly
  /\ IF authenticateToken("orders-manufacturer", tok) # NoResponse
       THEN resp' = authenticateToken("orders-manufacturer", tok)
     ELSE IF notManufacturer(tok)
       THEN resp' = Response("orders-manufacturer", tok, 403, "Access denied")
     ELSE \E list \in find("manufacturerId", tok.id) :
            resp' = Listing("orders-manufacturer", tok, list)

\* GET /api/orders/buyer
OrdersBuyer(tok) ==
  /\ Receive
  /\ ReadOnly
  /\ IF authenticateToken("orders-buyer", tok) # NoResponse
       THEN resp' = authenticateToken("orders-buyer", tok)
     ELSE IF notBuyer(tok)
       THEN resp' = Response("orders-buyer", tok, 403, "Access denied")
     ELSE \E list \in find("buyerId", tok.id) :
            resp' = Listing("orders-buyer", tok, list)

\* GET /api/buyer/:buyerId/orders: no middleware, the Authorization header
\* (tok) is not read.
BuyerOrdersOf(tok, buyerId) ==
  /\ Receive
  /\ ReadOnly
  /\ \E list \in find("buyerId", buyerId) :
       resp' = Listing("buyer-id-orders", tok, list)

\* GET /api/orders/manufacturer/:id (deprecated): no middleware.
OrdersManufacturerOf(tok, id) ==
  /\ Receive
  /\ ReadOnly
  /\ \E list \in find("manufacturerId", id) :
       resp' = Listing("orders-manufacturer-id", tok, list)

\* GET /api/orders/buyer/:id (deprecated): no middleware.
OrdersBuyerOf(tok, id) ==
  /\ Receive
  /\ ReadOnly
  /\ \E list \in find("buyerId", id) :
       resp' = Listing("orders-buyer-id", tok, list)

\* The ids a listing is asked for in its path.
ListingIds == ManufacturerIds \cup BuyerIds

\* Order creation and the order listings.
NextList ==
  \/ Tick
  \/ \E tok \in Tokens, body \in CreateBodies : CreateOrder(tok, body)
  \/ \E tok \in Tokens : ManufacturerOrders(tok)
  \/ \E tok \in Tokens : OrdersManufacturer(tok)
  \/ \E tok \in Tokens : OrdersBuyer(tok)
  \/ \E tok \in Tokens, id \in ListingIds : BuyerOrdersOf(tok, id)
  \/ \E tok \in Tokens, id \in ListingIds : OrdersManufacturerOf(tok, id)
  \/ \E tok \in Tokens, id \in ListingIds : OrdersBuyerOf(tok, id)

SpecList == Init /\ [][NextList]_vars

(***************************************************************************)
(* Properties                                                              *)
(***************************************************************************)

\* The transition table as the specification states it.
TableEdges ==
  {<<"Pending", "Allowed">>, <<"Pending", "Cancelled">>,
   <<"Allowed", "Approved">>, <<"Allowed", "Cancelled">>,
   <<"Approved", "Delivered">>, <<"Approved", "Cancelled">>}

Terminal == {"Delivered", "Cancelled"}

\* Slot r's pending update is applied (and answered) by this step.
Writes(r) == inflight[r].pc # "idle" /\ inflight'[r].pc = "idle"

\* C1: every change of a stored order's status, by any status-changing
\* route, is an edge of the transition table; a request for a status that
\* is not an allowed next status is never applied.
C1_OnlyTableEdges ==
  [][\A i \in 1..Len(orders) :
       orders'[i].status # orders[i].status
         => <<orders[i].status, orders'[i].status>> \in TableEdges]_vars

\* C2: when the owner's requests for Allowed and for Cancelled race on a
\* Pending order (both loaded it as Pending before either wrote), the one
\* whose update reaches the store second, after the other's status has been
\* stored, is answered with a failure: exactly one of the two succeeds.
C2_RaceOneSucceeds ==
  [][\A r \in Reqs :
       /\ inflight[r].pc = "update"
       /\ Writes(r)
       /\ inflight[r].seen = "Pending"
       /\ inflight[r].status \in {"Allowed", "Cancelled"}
       /\ orders[inflight[r].order].status
            \in {"Allowed", "Cancelled"} \ {inflight[r].status}
       => resp'.code # 200]_vars

\* C3: the update of a transition is applied only to an order that still
\* has the status the handler loaded and validated against; otherwise the
\* store is left as it is.
C3_WriteIsConditional ==
  [][\A r \in Reqs :
       /\ inflight[r].pc = "update"
       /\ Writes(r)
       /\ orders[inflight[r].order].status # inflight[r].seen
       => orders' = orders]_vars

\* A transition request for order i with a status, carrying token tok, on
\* either route, is handled (up to its answer or its issued update) by this
\* step.
Attempt(tok, i) ==
  \/ \E r \in Reqs, st \in StatusInputs :
       UpdateFind(r, tok, [orderId |-> i, status |-> st])
  \/ \E r \in Reqs, st \in StatusInputs :
       StatusFind(r, tok, i, [status |-> st])

OwnerAttempt(i) == Attempt(ManufacturerToken(orders[i].manufacturerId), i)

\* C4: once an order is Delivered or Cancelled its status never changes
\* again, and a transition attempt on it that passes the access guard (made
\* by its owner, with any requested status) is answered with an invalid
\* transition failure that reports an empty allowed set.
C4_TerminalIsFinal ==
  [][\A i \in 1..Len(orders) :
       orders[i].status \in Terminal
         => /\ orders'[i].status = orders[i].status
            /\ OwnerAttempt(i)
                 => /\ resp'.code = 400
                    /\ resp'.hasAllowed
                    /\ resp'.allowed = << >>]_vars

\* C5: an order stored by POST /api/orders has status Pending, whatever
\* the request body carries.
C5_CreatedPending ==
  [][Len(orders') > Len(orders)
       => orders'[Len(orders')].status = "Pending"]_vars

\* C6: an order's status is changed only by an update issued by a request
\* authenticated as the manufacturer whose id is the order's manufacturerId;
\* no other request, on any route, changes it.
C6_OnlyOwnerChangesStatus ==
  [][\A i \in 1..Len(orders) :
       orders'[i].status # orders[i].status
         => \E r \in Reqs :
              /\ Writes(r)
              /\ inflight[r].order = i
              /\ inflight[r].user = ManufacturerToken(orders[i].manufacturerId)]_vars

\* C7: a transition attempt by a manufacturer on an existing order of
\* another manufacturer is answered with an authorization failure (403),
\* whatever status it asks for, and changes nothing.
C7_NotOwnerIsForbidden ==
  [][\A i \in 1..Len(orders) :
       \A m \in ManufacturerIds \ {orders[i].manufacturerId} :
         Attempt(ManufacturerToken(m), i)
           => /\ resp'.code = 403
              /\ orders' = orders]_vars

\* C8: a transition request whose verified actor is not a manufacturer is
\* answered with the route's access-denied failure, whatever else it
\* carries, before anything is looked up: it issues no update and changes
\* no order.
C8_NonManufacturerDenied ==
  [][/\ \A r \in Reqs :
          inflight'[r].pc # "idle" => inflight'[r].user.type = "manufacturer"
     /\ (/\ nreq' # nreq
         /\ resp'.route \in {"update", "status"}
         /\ resp'.type \notin {"manufacturer", "none", "bad"})
          => /\ resp'.code = 403
             /\ resp'.message
                  \in {"Access denied - Manufacturer only", "Access denied"}
             /\ orders' = orders
             /\ inflight' = inflight]_vars

\* A buyer's transition request has been refused while an order exists.
C8_Witness ==
  /\ Len(orders) >= 1
  /\ resp.route \in {"update", "status"}
  /\ resp.type = "buyer"
  /\ resp.code = 403

\* C9: a transition attempt that fails (any answer other than 200 on a
\* status-changing route) leaves the Order collection exactly as it was,
\* status and statusUpdatedAt of every order included.
C9_FailedAttemptNoChange ==
  [][(/\ nreq' # nreq
      /\ resp'.route \in {"update", "status"}
      /\ resp'.code # 200)
       => orders' = orders]_vars

\* An invalid transition has been refused on an order that an earlier
\* transition had stamped.
C9_Witness ==
  /\ resp.route = "update"
  /\ resp.hasAllowed
  /\ \E i \in 1..Len(orders) : orders[i].statusUpdatedAt # NoDate

\* The rows of the transition table as the specification states them.
TableRow ==
  [s \in Statuses |->
     CASE s = "Pending" -> <<"Allowed", "Cancelled">>
       [] s = "Allowed" -> <<"Approved", "Cancelled">>
       [] s = "Approved" -> <<"Delivered", "Cancelled">>
       [] OTHER -> << >>]

\* C10: the allowed list reported with an invalid-transition failure is the
\* table row of the order's current status, and it is empty only when that
\* status is Delivered or Cancelled.
C10_AllowedIsRow ==
  [][\A i \in 1..Len(orders) :
       (OwnerAttempt(i) /\ resp'.hasAllowed)
         => /\ orders[i].status \in Statuses
                 => resp'.allowed = TableRow[orders[i].status]
            /\ resp'.allowed = << >> => orders[i].status \in Terminal]_vars


C12_OthersUnchanged ==
  [][\A r \in Reqs :
       Writes(r) =>
         /\ Len(orders') = Len(orders)
         /\ \A j \in 1..Len(orders) :
              j # inflight[r].order => orders'[j] = orders[j]
         /\ manufacturers' = manufacturers
         /\ buyers' = buyers
         /\ saving' = saving]_vars

\* Two orders carry the same id; one has been through a transition, the
\* other has not.
C12_Witness ==
  /\ resp.code = 200
  /\ resp.route \in {"update", "status"}
  /\ \E i, j \in 1..Len(orders) :
       /\ i # j
       /\ orders[i].id = orders[j].id
       /\ orders[i].statusUpdatedAt # NoDate
       /\ orders[j].statusUpdatedAt = NoDate

\* C15: the status of every stored order is one of Pending, Allowed,
\* Approved, Delivered, Cancelled.
C15_StatusInEnum ==
  \A i \in 1..Len(orders) : orders[i].status \in Statuses

\* A listing request of the caller tok, whatever its route and path.
ListingBy(tok) ==
  \/ ManufacturerOrders(tok)
  \/ OrdersManufacturer(tok)
  \/ OrdersBuyer(tok)
  \/ \E id \in ListingIds :
       BuyerOrdersOf(tok, id) \/ OrdersManufacturerOf(tok, id)
         \/ OrdersBuyerOf(tok, id)

\* C13: a listing of orders is answered only to a request with a verified
\* token, and every order in it is one the caller placed (buyer) or one
\* placed with the caller (manufacturer).
C13_ListingsOwnOnly ==
  [][\A tok \in Tokens :
       (ListingBy(tok) /\ resp'.code = 200) =>
         /\ tok.kind = "jwt"
         /\ \A k \in 1..Len(resp'.list) :
              \/ tok.type = "buyer" /\ resp'.list[k].buyerId = tok.id
              \/ tok.type = "manufacturer"
                   /\ resp'.list[k].manufacturerId = tok.id]_vars

\* The order a creating step has stored.
Created == orders'[Len(orders')]

\* C14: every order stored by order creation has total = price * quantity,
\* whether or not the request supplied a total.
C14_TotalIsPriceTimesQuantity ==
  [][Len(orders') > Len(orders) =>
       Created.total = Some(Created.price[1] * Created.quantity[1])]_vars

\* C16: an order is stored only by a request with a verified buyer token,
\* and the stored order's buyer is the id of that token, whatever buyerId
\* the request body names.
C16_BuyerFromToken ==
  [][/\ Len(orders') > Len(orders) =>
          resp'.type = "buyer" /\ resp'.code = 200
     /\ \A tok \in Tokens, body \in OrderBodies :
          ((CreateOrder(tok, body) \/ Rev1CreateOrder(tok, body))
             /\ Len(orders') > Len(orders)) =>
            /\ tok.kind = "jwt"
            /\ tok.type = "buyer"
            /\ Created.buyerId = tok.id]_vars

\* Both creation routes have stored an order for buyer b1.
C16_Witness ==
  /\ Len(orders) = 2
  /\ orders[1].id # orders[2].id
  /\ \A i \in 1..2 : orders[i].buyerId = "b1"
  /\ resp.code = 200
  /\ resp.route \in {"create", "order-create"}

\* C17: the catalog of a manufacturer changes only by a catalog replace
\* whose verified token is that manufacturer's.
C17_OnlyOwnCatalog ==
  [][\A i \in 1..Len(manufacturers) :
       manufacturers'[i].products # manufacturers[i].products =>
         \E tok \in Tokens, body \in CatalogBodies :
           /\ tok.kind = "jwt"
           /\ tok.type = "manufacturer"
           /\ tok.id = manufacturers[i]._id
           /\ UpdateProducts(tok, body)]_vars

\* A product with a name and a price of at least zero.
HasNameAndPrice(product) ==
  /\ product.name \notin {Undefined, "", BlankName}
  /\ product.price # Absent
  /\ product.price[1] >= 0

\* A catalog replace whose products are an array with a product lacking a
\* name or a price of at least zero.
HasInvalid(body) ==
  /\ body.products # Absent
  /\ \E j \in 1..Len(body.products[1]) :
       ~HasNameAndPrice(body.products[1][j])

\* C20: every product of every stored catalog has a name and a price of at
\* least zero; a catalog replace that is not answered 200 stores nothing,
\* one with an invalid product is never answered 200, and a registration
\* with an invalid product is answered an error and stores no account.
C20_CatalogProductsValid ==
  [][/\ \A i \in 1..Len(manufacturers') :
          \A k \in 1..Len(manufacturers'[i].products) :
            HasNameAndPrice(manufacturers'[i].products[k])
     /\ (nreq' # nreq /\ resp'.route = "update-products") =>
          /\ resp'.code # 200 => manufacturers' = manufacturers
          /\ resp'.code = 200 =>
               \A tok \in Tokens, body \in CatalogBodies :
                 HasInvalid(body) => ~UpdateProducts(tok, body)
     /\ \A k \in 1..Len(saving) :
          (/\ SaveManufacturer(k)
           /\ \E j \in 1..Len(saving[k].doc.products) :
                ~HasNameAndPrice(saving[k].doc.products[j])) =>
            resp'.code = 500 /\ manufacturers' = manufacturers]_vars

\* A manufacturer has a stored catalog and a replace of it has just been
\* rejected by the validators.
C20_Witness ==
  /\ resp.route = "update-products"
  /\ resp.code = 500
  /\ resp.type = "manufacturer"
  /\ \E i \in 1..Len(manufacturers) : Len(manufacturers[i].products) > 0

\* C18: no two buyer accounts have the same username, registrations of one
\* username running concurrently included.
C18_UsernamesUnique ==
  \A i, j \in 1..Len(buyers) :
    i # j => buyers[i].username # buyers[j].username

\* Two registrations of one username both passed the existence check; one
\* account is stored and the other registration has failed.
C18_Witness ==
  /\ Len(buyers) = 1
  /\ saving = << >>
  /\ resp.route = "buyer-register"
  /\ resp.code = 500

\* C19: a login with the username and password of a registered buyer is
\* answered with a token of type buyer whose id is that account's id, and a
\* login with another password for that username is issued no token.
C19_RegisterThenLogin ==
  [][\A body \in LoginBodies, i \in 1..Len(buyers) :
       (BuyerLogin(body) /\ buyers[i].username = body.username) =>
         IF compare(body.password, buyers[i].password)
           THEN resp'.code = 200 /\ resp'.token = BuyerToken(buyers[i]._id)
           ELSE resp'.token = NoToken]_vars

\* The routes that change a store or read the data of one actor.
GuardedRoutes ==
  {"create", "update", "status", "update-products", "manufacturer-profile",
   "manufacturer-orders", "orders-manufacturer", "orders-buyer",
   "buyer-id-orders", "orders-manufacturer-id", "orders-buyer-id"}

\* C21: a request to a mutation or an actor-scoped read that carries no
\* token, or a token that fails verification, is answered an authentication
\* failure and leaves orders, pending updates and accounts unchanged.
C21_GuardBeforeHandler ==
  [][(/\ nreq' # nreq
      /\ resp'.route \in GuardedRoutes
      /\ resp'.type \in {"none", "bad"}) =>
        /\ resp'.code \in {401, 403}
        /\ resp'.message \in {"Access token required", "Invalid token"}
        /\ orders' = orders
        /\ inflight' = inflight
        /\ manufacturers' = manufacturers
        /\ buyers' = buyers
        /\ saving' = saving]_vars

\* Pending < Allowed < Approved < {Delivered, Cancelled}
rank ==
  [s \in Statuses |->
     CASE s = "Pending" -> 0
       [] s = "Allowed" -> 1
       [] s = "Approved" -> 2
       [] s = "Delivered" -> 3
       [] s = "Cancelled" -> 3]

\* C24: every successful update that changes the status of an order from
\* one workflow status to another strictly increases the rank of the status.
C24_RankIncreases ==
  [][\A r \in Reqs :
       (/\ Writes(r)
        /\ orders'[inflight[r].order].status # orders[inflight[r].order].status
        /\ orders[inflight[r].order].status \in Statuses
        /\ orders'[inflight[r].order].status \in Statuses) =>
         rank[orders'[inflight[r].order].status]
           > rank[orders[inflight[r].order].status]]_vars

\* C25: for every stored order whose status is not Delivered or Cancelled,
\* a request of its owning manufacturer on PUT
\* /api/manufacturer/orders/update for status Cancelled passes the checks
\* and its update is issued.
C25_CancelAlwaysAccepted ==
  [][\A i \in 1..Len(orders), r \in Reqs :
       (/\ orders[i].status \notin Terminal
        /\ UpdateFind(r, ManufacturerToken(orders[i].manufacturerId),
                      [orderId |-> i, status |-> "Cancelled"])) =>
         /\ inflight'[r].pc = "update"
         /\ inflight'[r].order = i
         /\ inflight'[r].status = "Cancelled"]_vars

\* C23: order creation stores no order that lacks the manufacturer id, the
\* product name, the price or the quantity: a create request without one of
\* them is rejected.
C23_RequiredFieldsPresent ==
  [][Len(orders') > Len(orders) =>
       /\ Created.manufacturerId # Undefined
       /\ Created.product # Undefined
       /\ Created.price # Absent
       /\ Created.quantity # Absent]_vars

\* C22: GET /api/manufacturer/all is answered 200 whatever token the
\* request carries (none included) with every stored manufacturer, each
\* without its password field, and changes no account.
C22_PublicListing ==
  [][(nreq' # nreq /\ resp'.route = "manufacturer-all") =>
       /\ resp'.code = 200
       /\ Len(resp'.list) = Len(manufacturers)
       /\ \A k \in 1..Len(manufacturers) :
            /\ "password" \notin DOMAIN resp'.list[k]
            /\ resp'.list[k]._id = manufacturers[k]._id
            /\ resp'.list[k].username = manufacturers[k].username
            /\ resp'.list[k].email = manufacturers[k].email
            /\ resp'.list[k].products = manufacturers[k].products
       /\ manufacturers' = manufacturers
       /\ buyers' = buyers
       /\ saving' = saving]_vars

\* A request without a token has been answered the two registered
\* manufacturers.
C22_Witness ==
  /\ resp.route = "manufacturer-all"
  /\ resp.type = "none"
  /\ resp.code = 200
  /\ Len(resp.list) = 2
  /\ Len(manufacturers) = 2

C27_NoPasswordInResponse ==
  /\ \A k \in 1..Len(resp.user) : "password" \notin DOMAIN resp.user[k]
  /\ \A k \in 1..Len(resp.list) : "password" \notin DOMAIN resp.list[k]

====
